---- MODULE Spec2Model ----
(***************************************************************************)
(* Model of the VPS log collector (src/main.py): the two line parsers, the *)
(* ingestion pass, and the coordination of the boot pass, the periodic     *)
(* scheduler task and the manual-trigger handlers on one asyncio event     *)
(* loop.                                                                   *)
(*                                                                         *)
(* Text is modelled as sequences of one-character strings, so that         *)
(* splitting, stripping and integer conversion are computed as Python      *)
(* computes them.  Coroutines interleave only where the code awaits: the   *)
(* variable cur names the coroutine that currently occupies the event      *)
(* loop, and a coroutine's step is enabled only while it occupies the loop *)
(* (or, for its first step after a suspension, while the loop is free).    *)
(***************************************************************************)
EXTENDS Integers, Sequences, FiniteSets, TLC

\* ------------------------------------------------------------------ bounds
MaxRequests == 2        \* manual-trigger requests that may be in flight at once
MaxTicks == 1           \* clock advances in one behaviour
BootClock == 1700000000 \* wall-clock reading (seconds since the epoch) at process start
MaxTokens == 10          \* most tokens on a generated access-log line

\* ------------------------------------------------------- program constants
INGEST_INTERVAL_SECONDS == 60 * 60 * 24
MANUAL_COOLDOWN_SECONDS == 60

\* ---------------------------------------------------------------- text
Whitespace == {" ", "\t", "\n", "\r"}
Digits == <<"0", "1", "2", "3", "4", "5", "6", "7", "8", "9">>

\* "absent" Python value None
None == [none |-> TRUE]

RECURSIVE SplitFrom(_, _, _, _)
\* str.split() with no separator: maximal runs of non-whitespace characters
SplitFrom(line, i, tok, acc) ==
    IF i > Len(line)
    THEN IF tok = <<>> THEN acc ELSE Append(acc, tok)
    ELSE IF line[i] \in Whitespace
         THEN SplitFrom(line, i + 1, <<>>, IF tok = <<>> THEN acc ELSE Append(acc, tok))
         ELSE SplitFrom(line, i + 1, Append(tok, line[i]), acc)

Split(line) == SplitFrom(line, 1, <<>>, <<>>)

RECURSIVE LStrip(_)
LStrip(s) == IF s # <<>> /\ Head(s) \in Whitespace THEN LStrip(Tail(s)) ELSE s

RECURSIVE RStrip(_)
RStrip(s) ==
    IF s # <<>> /\ s[Len(s)] \in Whitespace THEN RStrip(SubSeq(s, 1, Len(s) - 1)) ELSE s

\* str.strip(): leading and trailing whitespace removed
Strip(s) == RStrip(LStrip(s))

\* str.replace(ch, ""): every occurrence of one character removed
RemoveChar(s, ch) == SelectSeq(s, LAMBDA c : c # ch)

\* str.count(ch)
CountChar(s, ch) == Len(SelectSeq(s, LAMBDA c : c = ch))

\* needle in haystack (substring containment)
Contains(hay, needle) ==
    \E i \in 1..(Len(hay) - Len(needle) + 1) :
        SubSeq(hay, i, i + Len(needle) - 1) = needle

IsDigit(c) == \E d \in 1..10 : Digits[d] = c
DigitVal(c) == (CHOOSE d \in 1..10 : Digits[d] = c) - 1

\* the digits part of an int() literal: digits, single underscores between digits
IsDigitRun(s) ==
    /\ s # <<>>
    /\ IsDigit(s[1]) /\ IsDigit(s[Len(s)])
    /\ \A i \in 1..Len(s) : IsDigit(s[i]) \/ s[i] = "_"
    /\ \A i \in 1..(Len(s) - 1) : ~(s[i] = "_" /\ s[i + 1] = "_")

\* int(tok) succeeds: optional sign, then a digit run
IsInt(tok) ==
    /\ tok # <<>>
    /\ IF tok[1] \in {"+", "-"} THEN IsDigitRun(Tail(tok)) ELSE IsDigitRun(tok)

RECURSIVE DigitsValue(_, _)
DigitsValue(s, acc) ==
    IF s = <<>> THEN acc
    ELSE IF Head(s) = "_" THEN DigitsValue(Tail(s), acc)
         ELSE DigitsValue(Tail(s), 10 * acc + DigitVal(Head(s)))

\* int(tok), for a token IsInt accepts
IntValue(tok) ==
    IF tok[1] = "-" THEN 0 - DigitsValue(Tail(tok), 0)
    ELSE IF tok[1] = "+" THEN DigitsValue(Tail(tok), 0)
    ELSE DigitsValue(tok, 0)

\* ---------------------------------------------------------------- parsers
\* a parser that takes the request from the tokens after a one-token timestamp
ParseNginxOneTokenTimestamp(line) ==
    LET parts == Split(line) IN
    IF Len(parts) < 8 THEN None
    ELSE IF ~IsInt(parts[8]) THEN None
    ELSE [remote_addr |-> parts[1],
          method |-> RemoveChar(parts[5], "\""),
          path |-> parts[6],
          status_code |-> IntValue(parts[8]),
          raw |-> Strip(line)]

\* a parser that wants a tenth token
ParseNginxNeedsTenTokens(line) ==
    LET parts == Split(line) IN
    IF Len(parts) < 10 THEN None
    ELSE IF ~IsInt(parts[9]) THEN None
    ELSE [remote_addr |-> parts[1],
          method |-> RemoveChar(parts[6], "\""),
          path |-> parts[7],
          status_code |-> IntValue(parts[9]),
          raw |-> Strip(line)]

\* parse_nginx_log_line: IndexError (fewer than 9 tokens) and ValueError
\* (token 8 not an integer) are caught and give None
parse_nginx_log_line(line) ==
    LET parts == Split(line) IN
    IF Len(parts) < 9 THEN None
    ELSE IF ~IsInt(parts[9]) THEN None
    ELSE [remote_addr |-> parts[1],
          method |-> RemoveChar(parts[6], "\""),
          path |-> parts[7],
          status_code |-> IntValue(parts[9]),
          raw |-> Strip(line)]

\* index of the first token equal to tok, 0 when there is none
FirstIndex(parts, tok) ==
    IF \E i \in 1..Len(parts) : parts[i] = tok
    THEN CHOOSE i \in 1..Len(parts) :
            parts[i] = tok /\ \A j \in 1..(i - 1) : parts[j] # tok
    ELSE 0

\* parse_ssh_log_line: an IndexError ("for" is the last token) gives None
parse_ssh_log_line(line) ==
    LET parts == Split(line)
        action == IF Contains(line, <<"A", "c", "c", "e", "p", "t", "e", "d">>) THEN "accepted"
                  ELSE IF Contains(line, <<"F", "a", "i", "l", "e", "d">>) THEN "failed"
                  ELSE "unknown"
        ipIdx == IF \E i \in 1..Len(parts) : CountChar(parts[i], ".") = 3
                 THEN CHOOSE i \in 1..Len(parts) :
                        /\ CountChar(parts[i], ".") = 3
                        /\ \A j \in 1..(i - 1) : CountChar(parts[j], ".") # 3
                 ELSE 0
        forIdx == FirstIndex(parts, <<"f", "o", "r">>)
    IN  IF forIdx # 0 /\ forIdx + 1 > Len(parts) THEN None
        ELSE [user |-> IF forIdx = 0 THEN <<>> ELSE parts[forIdx + 1],
              has_user |-> forIdx # 0,
              ip_address |-> IF ipIdx = 0 THEN <<>> ELSE parts[ipIdx],
              has_ip |-> ipIdx # 0,
              action |-> action,
              raw |-> Strip(line)]

\* ------------------------------------------------------------- log files
\* a line of text from its tokens: joined by single spaces, newline-terminated
RECURSIVE JoinTokens(_)
JoinTokens(toks) ==
    IF toks = <<>> THEN <<"\n">>
    ELSE IF Len(toks) = 1 THEN Head(toks) \o <<"\n">>
    ELSE Head(toks) \o <<" ">> \o JoinTokens(Tail(toks))

TokAddr == <<"1", ".", "2", ".", "3", ".", "4">>
TokDash == <<"-">>
TokFor == <<"f", "o", "r">>

\* 1.2.3.4 - - [d +0] "GET /x H" 200 5
NginxGoodLine ==
    JoinTokens(<< TokAddr, TokDash, TokDash, <<"[", "d">>, <<"+", "0", "]">>,
                  <<"\"", "G", "E", "T">>, <<"/", "x">>, <<"H", "\"">>,
                  <<"2", "0", "0">>, <<"5">> >>)
\* status token is not an integer
NginxBadStatusLine ==
    JoinTokens(<< TokAddr, TokDash, TokDash, <<"[", "d">>, <<"+", "0", "]">>,
                  <<"\"", "G", "E", "T">>, <<"/", "x">>, <<"H", "\"">>,
                  <<"-">>, <<"5">> >>)
\* fewer than 9 tokens
NginxShortLine == JoinTokens(<< TokAddr, TokDash, <<"x">> >>)

\* sshd: Accepted password for al from 1.2.3.4
SshAcceptedLine ==
    JoinTokens(<< <<"s", "s", "h", "d", ":">>, <<"A", "c", "c", "e", "p", "t", "e", "d">>,
                  <<"p", "w">>, TokFor, <<"a", "l">>, <<"f", "r", "o", "m">>, TokAddr >>)
\* "for" is the last token: the parser's IndexError
SshDanglingForLine == JoinTokens(<< <<"F", "a", "i", "l", "e", "d">>, TokFor >>)
SshOtherLine == JoinTokens(<< <<"c", "r", "o", "n">>, <<"x">> >>)

\* A log file: whether it exists, its lines, and the 1-based index of the line whose
\* read raises (an undecodable byte in text mode); 0 when every line is readable.
AbsentFile == [exists |-> FALSE, lines |-> <<>>, bad |-> 0]
TextFile(lines) == [exists |-> TRUE, lines |-> lines, bad |-> 0]
UndecodableFile(lines, k) == [exists |-> TRUE, lines |-> lines, bad |-> k]

NginxFiles ==
    { AbsentFile,
      TextFile(<<NginxGoodLine, NginxBadStatusLine, NginxShortLine, NginxGoodLine>>),
      UndecodableFile(<<NginxGoodLine, NginxGoodLine>>, 2) }

SshFiles ==
    { AbsentFile,
      TextFile(<<SshAcceptedLine, SshDanglingForLine, SshOtherLine>>) }

\* ------------------------------------------------- generated access-log lines
\* Lines built token by token, so that the tokens of a line and what int() makes of
\* its ninth token are known by construction and not by running the parser.
\* int() literals: the value of a token int() accepts (sign, leading zeros, single
\* underscores between digits), and tokens it refuses with ValueError
StatusLiterals ==
    { [tok |-> <<"2", "0", "0">>, int |-> TRUE, val |-> 200],
      [tok |-> <<"4", "0", "4">>, int |-> TRUE, val |-> 404],
      [tok |-> <<"+", "7">>, int |-> TRUE, val |-> 7],
      [tok |-> <<"-", "3">>, int |-> TRUE, val |-> 0 - 3],
      [tok |-> <<"0", "0", "7">>, int |-> TRUE, val |-> 7],
      [tok |-> <<"1", "_", "0">>, int |-> TRUE, val |-> 10],
      [tok |-> <<"-">>, int |-> FALSE, val |-> 0],
      [tok |-> <<"2", "x">>, int |-> FALSE, val |-> 0],
      [tok |-> <<"_", "1">>, int |-> FALSE, val |-> 0],
      [tok |-> <<"1", "_", "_", "0">>, int |-> FALSE, val |-> 0],
      [tok |-> <<"1", ".", "5">>, int |-> FALSE, val |-> 0],
      [tok |-> <<"\"", "2", "0", "0", "\"">>, int |-> FALSE, val |-> 0] }

\* how the tokens are laid out on the line: leading whitespace, separator, line end
Layouts ==
    { [lead |-> <<>>, sep |-> <<" ">>, eol |-> <<"\n">>],
      [lead |-> <<" ", "\t">>, sep |-> <<"\t">>, eol |-> <<"\r", "\n">>],
      [lead |-> <<>>, sep |-> <<" ", " ">>, eol |-> <<>>] }
PlainLayout == [lead |-> <<>>, sep |-> <<" ">>, eol |-> <<"\n">>]

\* a line of n tokens whose ninth token, when there is one, is the literal
LineCase(n, literal, layout) == [n |-> n, ninth |-> literal, layout |-> layout]
DefaultLiteral == [tok |-> <<"2", "0", "0">>, int |-> TRUE, val |-> 200]
LineCases ==
    { LineCase(n, DefaultLiteral, l) : n \in 0..8, l \in Layouts }
    \cup { LineCase(n, x, l) : n \in 9..MaxTokens, x \in StatusLiterals, l \in Layouts }

FillerToken(i) ==
    IF i = 1 THEN TokAddr
    ELSE IF i = 6 THEN <<"\"", "G", "E", "T">>
    ELSE IF i = 7 THEN <<"/", "x">>
    ELSE TokDash
TokensOf(c) == [i \in 1..c.n |-> IF i = 9 THEN c.ninth.tok ELSE FillerToken(i)]

RECURSIVE JoinWith(_, _)
JoinWith(toks, sep) ==
    IF toks = <<>> THEN <<>>
    ELSE IF Len(toks) = 1 THEN Head(toks)
    ELSE Head(toks) \o sep \o JoinWith(Tail(toks), sep)

\* the text of the line, and the text without its surrounding whitespace
Stripped(c) == JoinWith(TokensOf(c), c.layout.sep)
Render(c) == c.layout.lead \o Stripped(c) \o c.layout.eol

\* 127.0.0.1 - - [10/Oct/2023] "GET /index.html HTTP/1.1" 200 512
WorkedExampleLine ==
    << "1", "2", "7", ".", "0", ".", "0", ".", "1", " ", "-", " ", "-", " ",
       "[", "1", "0", "/", "O", "c", "t", "/", "2", "0", "2", "3", "]", " ",
       "\"", "G", "E", "T", " ", "/", "i", "n", "d", "e", "x", ".", "h", "t", "m", "l", " ",
       "H", "T", "T", "P", "/", "1", ".", "1", "\"", " ",
       "2", "0", "0", " ", "5", "1", "2", "\n" >>
\* the same request as nginx's combined format writes it, the time zone a token of
\* its own: 127.0.0.1 - - [10/Oct/2023 +0000] "GET /index.html HTTP/1.1" 200 512
WorkedExampleZoneLine ==
    << "1", "2", "7", ".", "0", ".", "0", ".", "1", " ", "-", " ", "-", " ",
       "[", "1", "0", "/", "O", "c", "t", "/", "2", "0", "2", "3", " ",
       "+", "0", "0", "0", "0", "]", " ",
       "\"", "G", "E", "T", " ", "/", "i", "n", "d", "e", "x", ".", "h", "t", "m", "l", " ",
       "H", "T", "T", "P", "/", "1", ".", "1", "\"", " ",
       "2", "0", "0", " ", "5", "1", "2", "\n" >>

\* files of generated lines: every single line, and lines the parser refuses
\* around lines it accepts
CaseFile(cs) == TextFile([i \in 1..Len(cs) |-> Render(cs[i])])
RefusedCases ==
    { c \in LineCases : c.layout = PlainLayout /\ (c.n = 3 \/ (c.n = 9 /\ ~c.ninth.int)) }
AcceptedCases ==
    { c \in LineCases : c.layout = PlainLayout /\ c.n = 9 /\ c.ninth.val \in {10, 404} }
ParserCaseSeqs ==
    { <<c>> : c \in LineCases }
    \cup { <<a, b, a, b>> : a \in RefusedCases, b \in AcceptedCases }
ParserFiles ==
    { CaseFile(cs) : cs \in ParserCaseSeqs }
    \cup { TextFile(<<WorkedExampleLine>>), TextFile(<<WorkedExampleZoneLine>>) }

\* ------------------------------------------------------------------ state
VARIABLES
    nginx_file,       \* the file at /var/log/nginx/access.log
    ssh_file,         \* the file at /var/log/auth.log
    db_up,            \* the store accepts connections
    schema,           \* the two tables exist in the store
    nginx_logs,       \* rows of table nginx_logs
    ssh_logs,         \* rows of table ssh_logs
    nginx_commits,    \* history: calls of ingest_nginx_logs that found the file and returned
    now,              \* the clock (time.time(), and the loop's timer clock)
    ticks,            \* clock advances so far
    cur,              \* the coroutine occupying the event loop, <<"none", 0>> when free
    bpc,              \* position of the startup hook
    spc,              \* position of the ingestion_loop task
    wake,             \* deadline of the scheduler's pending asyncio.sleep
    mpc,              \* position of each manual-trigger handler
    mnow,             \* the handler's local `now`, kept while it waits for the lock
    resp,             \* HTTP status the handler answered with, 0 before
    during,           \* for a waiting request: "manual" when it arrived while a manual pass executed
    locked,           \* _ingest_lock is held
    waiters,          \* coroutines suspended in _ingest_lock.acquire(), FIFO
    _last_manual_run, \* the global of that name
    last_admit        \* history: clock reading at the latest admitted manual trigger, -1 before

vars == << nginx_file, ssh_file, db_up, schema, nginx_logs, ssh_logs, nginx_commits,
           now, ticks, cur, bpc, spc, wake, mpc, mnow, resp, during, locked, waiters,
           _last_manual_run, last_admit >>

env == << nginx_file, ssh_file >>
store == << nginx_logs, ssh_logs, nginx_commits >>

Requests == 1..MaxRequests
TimeSteps == {30, MANUAL_COOLDOWN_SECONDS, INGEST_INTERVAL_SECONDS}

NoTask == <<"none", 0>>
BootTask == <<"boot", 0>>
SchedTask == <<"sched", 0>>
ManualTask(h) == <<"manual", h>>

InPass(p) == p \in {"ingest_nginx", "ingest_ssh"}

\* the kind of ingestion pass that is executing, "none" when none is
RunningPass ==
    IF InPass(bpc) THEN "boot"
    ELSE IF InPass(spc) THEN "sched"
    ELSE IF \E h \in Requests : InPass(mpc[h]) THEN "manual"
    ELSE "none"

\* number of ingestion passes executing
PassCount ==
    (IF InPass(bpc) THEN 1 ELSE 0) + (IF InPass(spc) THEN 1 ELSE 0)
    + Cardinality({h \in Requests : InPass(mpc[h])})

Init ==
    /\ nginx_file \in NginxFiles
    /\ ssh_file \in SshFiles
    /\ db_up \in BOOLEAN
    /\ schema = FALSE
    /\ nginx_logs = <<>>
    /\ ssh_logs = <<>>
    /\ nginx_commits = 0
    /\ now = BootClock
    /\ ticks = 0
    /\ cur = BootTask
    /\ bpc = "init_db"
    /\ spc = "absent"
    /\ wake = 0
    /\ mpc = [h \in Requests |-> "idle"]
    /\ mnow = [h \in Requests |-> 0]
    /\ resp = [h \in Requests |-> 0]
    /\ during = [h \in Requests |-> "none"]
    /\ locked = FALSE
    /\ waiters = <<>>
    /\ _last_manual_run = 0
    /\ last_admit = -1

\* ------------------------------------------------------------- ingestion
\* the records db.add() collects while the file is iterated: the non-None ones
\* among the parser's results over the lines read, in file order
Collected(results) == SelectSeq(results, LAMBDA parsed : parsed # None)

ReadableLines(f) == IF f.bad = 0 THEN f.lines ELSE SubSeq(f.lines, 1, f.bad - 1)

\* db.commit() raises when the session has rows to flush and the store cannot
\* take them (it is unreachable, or create_all never created the tables); a
\* commit with nothing to flush opens no connection.
CommitFails(pending) == pending # <<>> /\ ~(db_up /\ schema)

\* ingestion that skips a source whose table already holds rows
RECURSIVE InsertedOnce(_, _)
InsertedOnce(table, pending) ==
    IF pending = <<>> \/ (table # <<>> /\ table[1].rec = Head(pending)) THEN table
    ELSE InsertedOnce(Append(table, [id |-> Len(table) + 1, rec |-> Head(pending)]),
                      Tail(pending))

\* rows the store holds after the flush: the surrogate id is set at insert (the
\* created_at column, which no operation reads, is left out)
RECURSIVE Inserted(_, _)
Inserted(table, pending) ==
    IF pending = <<>> THEN table
    ELSE Inserted(Append(table, [id |-> Len(table) + 1, rec |-> Head(pending)]),
                  Tail(pending))

\* IngestSource without the os.path.exists() test: open() raises on an absent file
IngestSourceNoExistsTest(f, pending, table) ==
    IF ~f.exists \/ f.bad # 0 \/ CommitFails(pending)
    THEN [raised |-> TRUE, table |-> table, leaked |-> IF f.exists THEN 1 ELSE 0]
    ELSE [raised |-> FALSE, table |-> Inserted(table, pending), leaked |-> 0]

\* a commit after every db.add(): the rows collected before a read failure are stored
IngestSourceCommitPerLine(f, pending, table) ==
    IF ~f.exists
    THEN [raised |-> FALSE, table |-> table, leaked |-> 0]
    ELSE IF CommitFails(pending)
    THEN [raised |-> TRUE, table |-> table, leaked |-> 1]
    ELSE [raised |-> f.bad # 0, table |-> Inserted(table, pending),
          leaked |-> IF f.bad # 0 THEN 1 ELSE 0]

\* One source's read/parse/persist sequence.  raised: an exception leaves the
\* function; table: the rows afterwards; leaked: sessions left unclosed (db.close()
\* is reached only on the normal path).
IngestSource(f, pending, table) ==
    IF ~f.exists
    THEN [raised |-> FALSE, table |-> table, leaked |-> 0]
    ELSE IF f.bad # 0
    THEN [raised |-> TRUE, table |-> table, leaked |-> 1]
    ELSE IF CommitFails(pending)
    THEN [raised |-> TRUE, table |-> table, leaked |-> 1]
    ELSE [raised |-> FALSE, table |-> Inserted(table, pending), leaked |-> 0]

\* the records each candidate file yields, computed once
NginxCollected ==
    [f \in NginxFiles \cup ParserFiles |->
        Collected([i \in 1..Len(ReadableLines(f)) |-> parse_nginx_log_line(ReadableLines(f)[i])])]
SshCollected ==
    [f \in SshFiles |->
        Collected([i \in 1..Len(ReadableLines(f)) |-> parse_ssh_log_line(ReadableLines(f)[i])])]

ingest_nginx_logs == IngestSource(nginx_file, NginxCollected[nginx_file], nginx_logs)

ingest_ssh_logs == IngestSource(ssh_file, SshCollected[ssh_file], ssh_logs)

\* GET /nginx/count: the number of rows of nginx_logs, or the transport's 500 when
\* the query cannot reach the table
nginx_count ==
    IF db_up /\ schema THEN [status |-> 200, count |-> Len(nginx_logs)]
    ELSE [status |-> 500, count |-> 0]

\* GET /ssh/count
ssh_count ==
    IF db_up /\ schema THEN [status |-> 200, count |-> Len(ssh_logs)]
    ELSE [status |-> 500, count |-> 0]

\* run_ingestion, first half: ingest_nginx_logs() runs; r is its outcome
RunNginx(r) ==
    /\ nginx_logs' = r.table
    /\ nginx_commits' = IF nginx_file.exists /\ ~r.raised THEN nginx_commits + 1
                        ELSE nginx_commits
    /\ UNCHANGED ssh_logs

\* run_ingestion, second half: reached only when ingest_nginx_logs() returned
RunSsh(r) ==
    /\ ssh_logs' = r.table
    /\ UNCHANGED << nginx_logs, nginx_commits >>

\* ------------------------------------------------------------------ lock
\* asyncio.Lock.acquire() takes the lock without suspending
LockFree == ~locked /\ waiters = <<>>

\* acquire()/release() written without try/finally: an exception skips the release
LockAfterExitNoFinally(raised) == raised

\* `async with _ingest_lock`: __aexit__ releases on return and on exception alike;
\* the value is whether the lock is still held after the block is left
LockAfterExit(raised) == FALSE

\* ------------------------------------------------------------ startup hook
\* init_db(): create_all succeeds, or its OperationalError is caught and logged
BootInitDb ==
    /\ cur = BootTask /\ bpc = "init_db"
    /\ schema' = db_up
    /\ bpc' = "ingest_nginx"
    /\ UNCHANGED << env, db_up, store, now, ticks, cur, spc, wake, mpc, mnow, resp, during,
                    locked, waiters, _last_manual_run, last_admit >>

\* run_ingestion() of the hook, not under the lock; an exception leaves the hook
\* and the application does not start
BootIngestNginx ==
    /\ cur = BootTask /\ bpc = "ingest_nginx"
    /\ LET r == ingest_nginx_logs IN
        /\ RunNginx(r)
        /\ bpc' = IF r.raised THEN "failed" ELSE "ingest_ssh"
        /\ cur' = IF r.raised THEN NoTask ELSE cur
    /\ UNCHANGED << env, db_up, schema, now, ticks, spc, wake, mpc, mnow, resp, during,
                    locked, waiters, _last_manual_run, last_admit >>

BootIngestSsh ==
    /\ cur = BootTask /\ bpc = "ingest_ssh"
    /\ LET r == ingest_ssh_logs IN
        /\ RunSsh(r)
        /\ bpc' = IF r.raised THEN "failed" ELSE "create_task"
        /\ cur' = IF r.raised THEN NoTask ELSE cur
    /\ UNCHANGED << env, db_up, schema, now, ticks, spc, wake, mpc, mnow, resp, during,
                    locked, waiters, _last_manual_run, last_admit >>

\* the boot pass counted as a manual trigger: it stamps the cooldown timestamp
BootCreateTaskStampsCooldown ==
    /\ cur = BootTask /\ bpc = "create_task"
    /\ bpc' = "done"
    /\ spc' = "created"
    /\ cur' = NoTask
    /\ _last_manual_run' = now
    /\ UNCHANGED << env, db_up, schema, store, now, ticks, wake, mpc, mnow, resp, during,
                    locked, waiters, last_admit >>

\* asyncio.create_task(ingestion_loop()); the hook returns and the server starts
BootCreateTask ==
    /\ cur = BootTask /\ bpc = "create_task"
    /\ bpc' = "done"
    /\ spc' = "created"
    /\ cur' = NoTask
    /\ UNCHANGED << env, db_up, schema, store, now, ticks, wake, mpc, mnow, resp, during,
                    locked, waiters, _last_manual_run, last_admit >>

\* ---------------------------------------------------------- ingestion_loop
\* the task's first run: it enters the loop and suspends in asyncio.sleep
SchedStart ==
    /\ cur = NoTask /\ spc = "created"
    /\ spc' = "sleep"
    /\ wake' = now + INGEST_INTERVAL_SECONDS
    /\ UNCHANGED << env, db_up, schema, store, now, ticks, cur, bpc, mpc, mnow, resp, during,
                    locked, waiters, _last_manual_run, last_admit >>

\* the sleep's deadline has passed: the timer has fired
TimerFired == spc = "sleep" /\ now >= wake

\* the manual cooldown applied to the scheduled path as well: the iteration is
\* skipped while fewer than 60 seconds have passed since the last manual trigger
SchedAcquireBehindCooldown ==
    /\ cur = NoTask /\ TimerFired
    /\ IF now - _last_manual_run < MANUAL_COOLDOWN_SECONDS
       THEN /\ wake' = now + INGEST_INTERVAL_SECONDS
            /\ UNCHANGED << spc, locked, cur >>
       ELSE /\ locked' = TRUE
            /\ spc' = "ingest_nginx"
            /\ cur' = SchedTask
            /\ UNCHANGED wake
    /\ UNCHANGED << env, db_up, schema, store, now, ticks, bpc, mpc, mnow, resp, during,
                    waiters, _last_manual_run, last_admit >>

\* The task resumes from the sleep and enters `async with _ingest_lock`: the lock
\* is taken at once when it is free, else the task joins the waiters and suspends;
\* a suspended task resumes when the lock was released to it.  No gate other than
\* the lock is consulted.
SchedAcquire ==
    /\ cur = NoTask /\ (TimerFired \/ spc = "wait_lock")
    /\ IF spc = "sleep"
       THEN IF LockFree
            THEN /\ locked' = TRUE
                 /\ spc' = "ingest_nginx"
                 /\ cur' = SchedTask
                 /\ UNCHANGED waiters
            ELSE /\ waiters' = Append(waiters, SchedTask)
                 /\ spc' = "wait_lock"
                 /\ UNCHANGED << locked, cur >>
       ELSE /\ ~locked /\ waiters # <<>> /\ Head(waiters) = SchedTask
            /\ locked' = TRUE
            /\ waiters' = Tail(waiters)
            /\ spc' = "ingest_nginx"
            /\ cur' = SchedTask
    /\ UNCHANGED << env, db_up, schema, store, now, ticks, bpc, wake, mpc, mnow, resp, during,
                    _last_manual_run, last_admit >>

\* run_ingestion() under the lock.  An exception leaves the `async with` (the lock
\* is released) and then the `while True`: the task ends.
SchedIngestNginx ==
    /\ cur = SchedTask /\ spc = "ingest_nginx"
    /\ LET r == ingest_nginx_logs IN
        /\ RunNginx(r)
        /\ spc' = IF r.raised THEN "dead" ELSE "ingest_ssh"
        /\ cur' = IF r.raised THEN NoTask ELSE cur
        /\ locked' = IF r.raised THEN LockAfterExit(TRUE) ELSE locked
    /\ UNCHANGED << env, db_up, schema, now, ticks, bpc, wake, mpc, mnow, resp, during,
                    waiters, _last_manual_run, last_admit >>

\* on return the lock is released and the loop suspends in the next sleep
SchedIngestSsh ==
    /\ cur = SchedTask /\ spc = "ingest_ssh"
    /\ LET r == ingest_ssh_logs IN
        /\ RunSsh(r)
        /\ spc' = IF r.raised THEN "dead" ELSE "sleep"
        /\ wake' = IF r.raised THEN wake ELSE now + INGEST_INTERVAL_SECONDS
        /\ locked' = LockAfterExit(r.raised)
    /\ cur' = NoTask
    /\ UNCHANGED << env, db_up, schema, now, ticks, bpc, mpc, mnow, resp, during,
                    waiters, _last_manual_run, last_admit >>

\* ------------------------------------------------------------ POST /ingest
\* no cooldown gate
CooldownActiveNever(t) == FALSE

\* the comparison written with <=
CooldownActiveInclusive(t) == t - _last_manual_run <= MANUAL_COOLDOWN_SECONDS

\* the cooldown comparison of manual_ingest, for the clock reading t
CooldownActive(t) == t - _last_manual_run < MANUAL_COOLDOWN_SECONDS

\* the two gates with their status codes exchanged
ManualGateCodesSwapped(t) ==
    IF t - _last_manual_run < MANUAL_COOLDOWN_SECONDS THEN 409
    ELSE IF locked THEN 429
    ELSE 0

\* the two gates in their order: the status of the rejection, 0 when both pass
ManualGate(t) ==
    IF CooldownActive(t) THEN 429
    ELSE IF locked THEN 409
    ELSE 0

\* a request reaches the server (which listens once the startup hook has returned)
\* and takes the lowest free slot
ManualArrive(h) ==
    /\ bpc = "done" /\ mpc[h] = "idle"
    /\ \A g \in 1..(h - 1) : mpc[g] # "idle"
    /\ mpc' = [mpc EXCEPT ![h] = "queued"]
    /\ during' = [during EXCEPT ![h] = IF RunningPass = "manual" THEN "manual" ELSE "none"]
    /\ UNCHANGED << env, db_up, schema, store, now, ticks, cur, bpc, spc, wake, mnow, resp,
                    locked, waiters, _last_manual_run, last_admit >>

\* the timestamp written before the lock is taken
ManualEnterStampsUnlocked(h, t) ==
    /\ UNCHANGED locked
    /\ _last_manual_run' = t
    /\ last_admit' = t
    /\ mpc' = [mpc EXCEPT ![h] = "ingest_nginx"]
    /\ cur' = ManualTask(h)
    /\ UNCHANGED resp

\* run_ingestion() awaited in a worker thread: the pass holds the lock while the
\* loop is free to run other coroutines
ManualEnterYielding(h, t) ==
    /\ locked' = TRUE
    /\ _last_manual_run' = t
    /\ last_admit' = t
    /\ mpc' = [mpc EXCEPT ![h] = "ingest_nginx"]
    /\ cur' = NoTask
    /\ UNCHANGED resp

\* the admitted path after the lock is taken: _last_manual_run = now, then run_ingestion()
ManualEnter(h, t) ==
    /\ locked' = TRUE
    /\ _last_manual_run' = t
    /\ last_admit' = t
    /\ mpc' = [mpc EXCEPT ![h] = "ingest_nginx"]
    /\ cur' = ManualTask(h)
    /\ UNCHANGED resp

\* the handler starts the pass as a detached job and takes no lock: it does not
\* wait for the loop to be free of another pass, and only the cooldown gates it
ManualIngestDetached(h) ==
    /\ mpc[h] = "queued"
    /\ IF now - _last_manual_run < MANUAL_COOLDOWN_SECONDS
       THEN /\ resp' = [resp EXCEPT ![h] = 429]
            /\ mpc' = [mpc EXCEPT ![h] = "done"]
            /\ UNCHANGED << cur, _last_manual_run, last_admit >>
       ELSE /\ _last_manual_run' = now
            /\ last_admit' = now
            /\ mpc' = [mpc EXCEPT ![h] = "ingest_nginx"]
            /\ cur' = ManualTask(h)
            /\ UNCHANGED resp
    /\ during' = [during EXCEPT ![h] = "none"]
    /\ UNCHANGED << env, db_up, schema, store, now, ticks, bpc, spc, wake, mnow, locked,
                    waiters >>

\* the handler runs: now = time.time(), the two gates, then `async with _ingest_lock`
ManualIngest(h) ==
    /\ cur = NoTask /\ mpc[h] \in {"queued", "wait_lock"}
    /\ IF mpc[h] = "queued"
       THEN IF ManualGate(now) # 0
            THEN /\ resp' = [resp EXCEPT ![h] = ManualGate(now)]
                 /\ mpc' = [mpc EXCEPT ![h] = "done"]
                 /\ UNCHANGED << cur, mnow, locked, waiters, _last_manual_run, last_admit >>
            ELSE IF LockFree
            THEN /\ ManualEnter(h, now)
                 /\ UNCHANGED << mnow, waiters >>
            ELSE /\ waiters' = Append(waiters, ManualTask(h))
                 /\ mnow' = [mnow EXCEPT ![h] = now]
                 /\ mpc' = [mpc EXCEPT ![h] = "wait_lock"]
                 /\ UNCHANGED << cur, resp, locked, _last_manual_run, last_admit >>
       ELSE /\ ~locked /\ waiters # <<>> /\ Head(waiters) = ManualTask(h)
            /\ ManualEnter(h, mnow[h])
            /\ waiters' = Tail(waiters)
            /\ mnow' = [mnow EXCEPT ![h] = 0]
    /\ during' = [during EXCEPT ![h] = "none"]
    /\ UNCHANGED << env, db_up, schema, store, now, ticks, bpc, spc, wake >>

\* run_ingestion() under the lock.  An exception leaves the `async with` (the lock
\* is released) and the handler: the transport answers 500.
ManualIngestNginx(h) ==
    /\ cur = ManualTask(h) /\ mpc[h] = "ingest_nginx"
    /\ LET r == ingest_nginx_logs IN
        /\ RunNginx(r)
        /\ mpc' = [mpc EXCEPT ![h] = IF r.raised THEN "done" ELSE "ingest_ssh"]
        /\ resp' = [resp EXCEPT ![h] = IF r.raised THEN 500 ELSE @]
        /\ cur' = IF r.raised THEN NoTask ELSE cur
        /\ locked' = IF r.raised THEN LockAfterExit(TRUE) ELSE locked
    /\ UNCHANGED << env, db_up, schema, now, ticks, bpc, spc, wake, mnow, during,
                    waiters, _last_manual_run, last_admit >>

\* on return the lock is released and the handler returns {"status": "ingestion triggered"}
ManualIngestSsh(h) ==
    /\ cur = ManualTask(h) /\ mpc[h] = "ingest_ssh"
    /\ LET r == ingest_ssh_logs IN
        /\ RunSsh(r)
        /\ resp' = [resp EXCEPT ![h] = IF r.raised THEN 500 ELSE 200]
        /\ locked' = LockAfterExit(r.raised)
    /\ mpc' = [mpc EXCEPT ![h] = "done"]
    /\ cur' = NoTask
    /\ UNCHANGED << env, db_up, schema, now, ticks, bpc, spc, wake, mnow, during,
                    waiters, _last_manual_run, last_admit >>

\* the transport sends the answer; the slot is free for the next request
ManualRespond(h) ==
    /\ mpc[h] = "done"
    /\ mpc' = [mpc EXCEPT ![h] = "idle"]
    /\ resp' = [resp EXCEPT ![h] = 0]
    /\ UNCHANGED << env, db_up, schema, store, now, ticks, cur, bpc, spc, wake, mnow, during,
                    locked, waiters, _last_manual_run, last_admit >>

\* ------------------------------------------------------------ environment
\* time passes (also while a pass executes)
Tick(d) ==
    /\ ticks < MaxTicks
    /\ now' = now + d
    /\ ticks' = ticks + 1
    /\ UNCHANGED << env, db_up, schema, store, cur, bpc, spc, wake, mpc, mnow, resp, during,
                    locked, waiters, _last_manual_run, last_admit >>

\* the store becomes unreachable, or reachable again
StoreFlips ==
    /\ db_up' = ~db_up
    /\ UNCHANGED << env, schema, store, now, ticks, cur, bpc, spc, wake, mpc, mnow, resp,
                    during, locked, waiters, _last_manual_run, last_admit >>

Next ==
    \/ BootInitDb
    \/ BootIngestNginx
    \/ BootIngestSsh
    \/ BootCreateTask
    \/ SchedStart
    \/ SchedAcquire
    \/ SchedIngestNginx
    \/ SchedIngestSsh
    \/ \E h \in Requests : ManualArrive(h)
    \/ \E h \in Requests : ManualIngest(h)
    \/ \E h \in Requests : ManualIngestNginx(h)
    \/ \E h \in Requests : ManualIngestSsh(h)
    \/ \E h \in Requests : ManualRespond(h)
    \/ \E d \in TimeSteps : Tick(d)
    \/ StoreFlips

Spec == Init /\ [][Next]_vars

\* a step of the coroutine that occupies the event loop
\* The boot pass alone, over the files of generated lines: ingest_nginx_logs applies
\* the parser to every line of the file.
ParserInit ==
    /\ nginx_file \in ParserFiles
    /\ ssh_file \in SshFiles
    /\ db_up \in BOOLEAN
    /\ schema = FALSE
    /\ nginx_logs = <<>>
    /\ ssh_logs = <<>>
    /\ nginx_commits = 0
    /\ now = BootClock
    /\ ticks = 0
    /\ cur = BootTask
    /\ bpc = "init_db"
    /\ spc = "absent"
    /\ wake = 0
    /\ mpc = [h \in Requests |-> "idle"]
    /\ mnow = [h \in Requests |-> 0]
    /\ resp = [h \in Requests |-> 0]
    /\ during = [h \in Requests |-> "none"]
    /\ locked = FALSE
    /\ waiters = <<>>
    /\ _last_manual_run = 0
    /\ last_admit = -1

ParserNext ==
    \/ BootInitDb
    \/ BootIngestNginx
    \/ BootIngestSsh
    \/ BootCreateTask

ParserSpec == ParserInit /\ [][ParserNext]_vars

LoopStep ==
    \/ BootInitDb \/ BootIngestNginx \/ BootIngestSsh \/ BootCreateTask
    \/ SchedIngestNginx \/ SchedIngestSsh
    \/ \E h \in Requests : ManualIngestNginx(h) \/ ManualIngestSsh(h)

\* Synchronous code runs to completion (at most one coroutine occupies the loop, so
\* at most one of these steps is enabled), and the scheduler task, once its timer
\* has fired, is run by the event loop.  Nothing is assumed of the clock, the
\* store or the clients.
Fairness == WF_vars(LoopStep) /\ WF_vars(SchedAcquire)

FairSpec == Spec /\ Fairness

\* ================================================================ claims
\* steps of run_ingestion, by the coroutine that runs it
NginxStepBy(p, q) == p = "ingest_nginx" /\ q # p
SshStepBy(p, q) == p = "ingest_ssh" /\ q # p
\* the handler of request h evaluates its gates in this step
Handled(h) == mpc[h] = "queued" /\ mpc'[h] # "queued"

\* C1: at most one ingestion pass (boot, scheduled or manual) executes at any
\* time; a pass never starts before the pass before it has ended.
MutualExclusion == PassCount <= 1

\* C1 witness: a manual pass executes while another request waits for the loop
\* and the scheduler's timer has fired.
MutualExclusionWitness ==
    /\ TimerFired
    /\ \E h \in Requests, g \in Requests :
        h # g /\ InPass(mpc[h]) /\ mpc[g] = "queued"

\* C2: after a manual trigger was admitted at t, a manual trigger handled at t'
\* with t' - t < 60 is answered 429; one handled at t' with t' - t >= 60 while no
\* pass runs is admitted: it takes the lock, records t' and runs a pass, and
\* answers 200 when the pass returns.
CooldownSequence ==
    [][\A h \in Requests :
        /\ (Handled(h) /\ last_admit # -1) =>
              IF now - last_admit < 60
              THEN resp'[h] = 429 /\ mpc'[h] = "done" /\ UNCHANGED << locked, _last_manual_run >>
              ELSE RunningPass = "none" =>
                     /\ mpc'[h] = "ingest_nginx" /\ locked'
                     /\ _last_manual_run' = now /\ last_admit' = now
        /\ (SshStepBy(mpc[h], mpc'[h]) /\ ~ingest_ssh_logs.raised) => resp'[h] = 200
      ]_vars

\* C2 witness: one request was answered 429 and, the cooldown over, another is
\* admitted and runs its pass.
CooldownSequenceWitness ==
    \E h \in Requests, g \in Requests :
        /\ resp[g] = 429
        /\ mpc[h] = "ingest_nginx" /\ _last_manual_run = now
        /\ now - BootClock >= MANUAL_COOLDOWN_SECONDS

\* C3: a manual trigger that arrives while the pass of an earlier manual trigger
\* executes is answered 409, whatever the time since that earlier trigger.
ConflictRejection ==
    [][\A h \in Requests : (Handled(h) /\ during[h] = "manual") => resp'[h] = 409]_vars

\* C4: the cooldown gate comes first: a manual trigger handled with
\* now - _last_manual_run < 60 is answered 429, lock held or not, never 409; 409 is
\* answered only when the cooldown is over and the lock is held.
GateOrder ==
    [][\A h \in Requests : Handled(h) =>
        /\ (now - _last_manual_run < 60) => resp'[h] = 429
        /\ resp'[h] = 409 => (now - _last_manual_run >= 60 /\ locked)
      ]_vars

\* C4 witness: a manual trigger was answered 429.
GateOrderWitness == \E h \in Requests : resp[h] = 429 /\ mpc[h] = "done"

\* C5: the lock is released on every exit of a pass run under it, by return or by
\* exception: from every state with the lock held a state with the lock free is
\* reached.
LockAlwaysReleased == locked ~> ~locked

\* C5 witness: a manual pass under the lock ended with an exception and the lock is free.
LockAlwaysReleasedWitness == ~locked /\ \E h \in Requests : resp[h] = 500

\* C6: every firing of the timer leads to a scheduled pass: the scheduled attempt
\* is never rejected, waits when the lock is held, and ignores the manual cooldown.
ScheduledRunNeverDropped == (TimerFired \/ spc = "wait_lock") ~> (spc = "ingest_nginx")

\* C6 witness: a scheduled pass executes within 60 seconds of an admitted manual trigger.
ScheduledRunNeverDroppedWitness ==
    /\ InPass(spc)
    /\ last_admit # -1 /\ now - _last_manual_run < MANUAL_COOLDOWN_SECONDS

\* C7: the scheduler repeats for the lifetime of the process: after every
\* scheduled pass, returned or failed, the task sleeps again towards a later pass.
SchedulerKeepsRepeating ==
    [][SshStepBy(spc, spc') \/ NginxStepBy(spc, spc') => spc' \in {"ingest_ssh", "sleep"}]_vars

\* C8: a failure of the web-access source does not keep the auth source from being
\* ingested in the same run_ingestion call.
FaultIsolation ==
    [][/\ NginxStepBy(bpc, bpc') => bpc' = "ingest_ssh"
       /\ NginxStepBy(spc, spc') => spc' = "ingest_ssh"
       /\ \A h \in Requests : NginxStepBy(mpc[h], mpc'[h]) => mpc'[h] = "ingest_ssh"
      ]_vars

\* C9: with the store unreachable during the startup hook, the hook still
\* completes: it never ends by an exception (the log files being readable).
StartupSurvivesStoreOutage ==
    (nginx_file.bad = 0 /\ ssh_file.bad = 0) => bpc # "failed"

\* C10: ingesting a source whose file is absent adds no record of its kind and
\* raises nothing, and the pass goes on: after an absent web-access file the auth
\* source is ingested, after an absent auth file the pass returns normally.
AbsentFileIsNoError ==
    [][/\ ( ~nginx_file.exists
            /\ \/ NginxStepBy(bpc, bpc') \/ NginxStepBy(spc, spc')
               \/ \E h \in Requests : NginxStepBy(mpc[h], mpc'[h]) )
          => /\ nginx_logs' = nginx_logs
             /\ NginxStepBy(bpc, bpc') => bpc' = "ingest_ssh"
             /\ NginxStepBy(spc, spc') => spc' = "ingest_ssh"
             /\ \A h \in Requests : NginxStepBy(mpc[h], mpc'[h]) => mpc'[h] = "ingest_ssh"
       /\ ( ~ssh_file.exists
            /\ \/ SshStepBy(bpc, bpc') \/ SshStepBy(spc, spc')
               \/ \E h \in Requests : SshStepBy(mpc[h], mpc'[h]) )
          => /\ ssh_logs' = ssh_logs
             /\ SshStepBy(bpc, bpc') => bpc' = "create_task"
             /\ SshStepBy(spc, spc') => spc' = "sleep"
             /\ \A h \in Requests : SshStepBy(mpc[h], mpc'[h]) => resp'[h] = 200
      ]_vars

\* C10 witness: a manual pass over an absent web-access file returned normally and
\* stored the auth records.
AbsentFileIsNoErrorWitness ==
    /\ ~nginx_file.exists /\ nginx_logs = <<>> /\ ssh_logs # <<>>
    /\ \E h \in Requests : resp[h] = 200

\* a line is well-formed for the web-access parser: at least 9 whitespace-separated
\* tokens, the ninth an integer
WellFormedLine(line) == Len(Split(line)) >= 9 /\ IsInt(Split(line)[9])
\* the well-formed lines of each candidate access log, and their stripped text
WellFormedLines ==
    [f \in NginxFiles |-> {i \in 1..Len(f.lines) : WellFormedLine(f.lines[i])}]
WellFormedRaws ==
    [f \in NginxFiles |-> {Strip(f.lines[i]) : i \in WellFormedLines[f]}]
WellFormedCount(f) == Cardinality(WellFormedLines[f])
MalformedCount(f) == Len(f.lines) - WellFormedCount(f)

\* C11: over an unchanged, readable web-access log with N well-formed and M
\* malformed lines, every ingestion of it that returns appends exactly N rows, so
\* after k of them on an empty store the table holds, and the count operation
\* reports, k*N rows: the second ingestion duplicates the rows of the first.
RecordCountIsPassesTimesN ==
    (nginx_file.exists /\ nginx_file.bad = 0) =>
        /\ Len(nginx_logs) = nginx_commits * WellFormedCount(nginx_file)
        /\ nginx_count.status = 200 =>
              nginx_count.count = nginx_commits * WellFormedCount(nginx_file)
        /\ \A i \in 1..Len(nginx_logs) :
              /\ nginx_logs[i].id = i
              /\ nginx_logs[i].rec.raw \in WellFormedRaws[nginx_file]

\* C11 witness: two ingestions of a log with N = 2 and M = 2 have returned and the
\* count operation reports 4.
RecordCountWitness ==
    /\ nginx_file.exists /\ nginx_file.bad = 0
    /\ WellFormedCount(nginx_file) = 2 /\ MalformedCount(nginx_file) = 2
    /\ nginx_commits = 2 /\ RunningPass = "none"
    /\ nginx_count = [status |-> 200, count |-> 4]

\* the boot pass is past ingest_nginx_logs, which returned
NginxIngested == bpc \in {"ingest_ssh", "create_task", "done"}

ExampleAddr == <<"1", "2", "7", ".", "0", ".", "0", ".", "1">>
ExampleGet == <<"G", "E", "T">>
ExampleIndex == <<"/", "i", "n", "d", "e", "x", ".", "h", "t", "m", "l">>
ExampleProtocol == <<"H", "T", "T", "P", "/", "1", ".", "1", "\"">>

\* C12 as stated: the record stored for the line
\* `127.0.0.1 - - [10/Oct/2023] "GET /index.html HTTP/1.1" 200 512`
\* has remote_addr "127.0.0.1", method "GET", path "/index.html", status_code 200.
WorkedExampleAsStated ==
    (nginx_file = TextFile(<<WorkedExampleLine>>) /\ Len(nginx_logs) = 1) =>
        /\ nginx_logs[1].rec.remote_addr = ExampleAddr
        /\ nginx_logs[1].rec.method = ExampleGet
        /\ nginx_logs[1].rec.path = ExampleIndex
        /\ nginx_logs[1].rec.status_code = 200

\* C12 amended: on that line, whose timestamp is one token, token[5] is the path and
\* token[8] the size, so the record has remote_addr "127.0.0.1", method
\* "/index.html", path `HTTP/1.1"` and status_code 512; the values the claim states
\* are those of the line that carries the time zone as a token of its own,
\* `127.0.0.1 - - [10/Oct/2023 +0000] "GET /index.html HTTP/1.1" 200 512`.
WorkedExampleByTokenIndex ==
    /\ (nginx_file = TextFile(<<WorkedExampleLine>>) /\ NginxIngested /\ db_up) =>
          /\ Len(nginx_logs) = 1
          /\ nginx_logs[1].rec.remote_addr = ExampleAddr
          /\ nginx_logs[1].rec.method = ExampleIndex
          /\ nginx_logs[1].rec.path = ExampleProtocol
          /\ nginx_logs[1].rec.status_code = 512
    /\ (nginx_file = TextFile(<<WorkedExampleZoneLine>>) /\ NginxIngested /\ db_up) =>
          /\ Len(nginx_logs) = 1
          /\ nginx_logs[1].rec.remote_addr = ExampleAddr
          /\ nginx_logs[1].rec.method = ExampleGet
          /\ nginx_logs[1].rec.path = ExampleIndex
          /\ nginx_logs[1].rec.status_code = 200

\* C12 witness: the worked example's line has been parsed and its record stored.
WorkedExampleWitness ==
    /\ nginx_file = TextFile(<<WorkedExampleLine>>)
    /\ bpc = "done"
    /\ Len(nginx_logs) = 1
    /\ nginx_logs[1].rec.raw = SubSeq(WorkedExampleLine, 1, Len(WorkedExampleLine) - 1)

\* by construction: the line has at least 9 tokens and int() accepts the ninth
AcceptedCase(c) == c.n >= 9 /\ c.ninth.int
AcceptedOf(cs) == SelectSeq(cs, AcceptedCase)

\* C13: the parser returns none exactly for the lines with fewer than 9 tokens or a
\* ninth token that is no integer, and otherwise a record whose status_code is the
\* value of the ninth token; a none result raises nothing and the lines after it are
\* still ingested, so the table holds, in file order, one row for each accepted line.
ParserSkipRule ==
    \A cs \in ParserCaseSeqs :
        nginx_file = CaseFile(cs) =>
            /\ \A i \in 1..Len(cs) :
                  IF AcceptedCase(cs[i])
                  THEN /\ parse_nginx_log_line(Render(cs[i])) # None
                       /\ parse_nginx_log_line(Render(cs[i])).status_code = cs[i].ninth.val
                  ELSE parse_nginx_log_line(Render(cs[i])) = None
            /\ NginxIngested =>
                  IF db_up
                  THEN /\ Len(nginx_logs) = Len(AcceptedOf(cs))
                       /\ \A i \in 1..Len(nginx_logs) :
                             /\ nginx_logs[i].rec.status_code = AcceptedOf(cs)[i].ninth.val
                             /\ nginx_logs[i].rec.raw = Stripped(AcceptedOf(cs)[i])
                  ELSE AcceptedOf(cs) = <<>> /\ nginx_logs = <<>>

\* C13 witness: a file whose first and third lines are refused (the ninth token "2x")
\* and whose second and fourth are accepted (the ninth token "1_0") has been
\* ingested: two rows, status_code 10.
ParserSkipRuleWitness ==
    \E a \in RefusedCases, b \in AcceptedCases :
        /\ a.n = 9 /\ a.ninth.tok = <<"2", "x">>
        /\ b.ninth.tok = <<"1", "_", "0">>
        /\ nginx_file = CaseFile(<<a, b, a, b>>)
        /\ bpc = "done"
        /\ Len(nginx_logs) = 2
        /\ nginx_logs[1].rec.status_code = 10 /\ nginx_logs[2].rec.status_code = 10

\* some coroutine runs ingest_nginx_logs, or ingest_ssh_logs, in this step
AnyNginxStep ==
    \/ NginxStepBy(bpc, bpc') \/ NginxStepBy(spc, spc')
    \/ \E h \in Requests : NginxStepBy(mpc[h], mpc'[h])
AnySshStep ==
    \/ SshStepBy(bpc, bpc') \/ SshStepBy(spc, spc')
    \/ \E h \in Requests : SshStepBy(mpc[h], mpc'[h])

\* C14: in every state in which an ingestion pass executes, the pass of the
\* startup hook included, the lock is held, and the lock is held only while a pass
\* executes.
LockHeldWhilePassRuns == (RunningPass # "none") <=> locked

\* C15: _last_manual_run changes only in the step that admits a manual trigger,
\* to the handler's clock reading and with the lock held; a trigger answered 429
\* or 409 leaves the timestamp, the lock and the waiters as they were and starts
\* no pass; no step of the boot pass or of the scheduler changes the timestamp.
CooldownStampFrame ==
    [][/\ _last_manual_run' # _last_manual_run =>
             \E h \in Requests :
                /\ mpc[h] \in {"queued", "wait_lock"} /\ mpc'[h] = "ingest_nginx"
                /\ locked' /\ _last_manual_run' \in {now, mnow[h]}
       /\ \A h \in Requests : (Handled(h) /\ resp'[h] \in {429, 409}) =>
             /\ UNCHANGED << _last_manual_run, locked, waiters, nginx_logs, ssh_logs >>
             /\ mpc'[h] = "done" /\ PassCount' = PassCount
       /\ (bpc' # bpc \/ spc' # spc) => UNCHANGED _last_manual_run
      ]_vars

\* C15 witness: a trigger was answered 429 with the timestamp still that of the
\* admitted trigger before it, whose pass has returned, after the boot pass.
CooldownStampFrameWitness ==
    \E h \in Requests, g \in Requests :
        /\ resp[h] = 429 /\ resp[g] = 200
        /\ _last_manual_run = BootClock /\ ~locked /\ bpc = "done"

\* C16: _last_manual_run never decreases, and an admission comes at least 60
\* seconds after the admission before it, so that any two admissions are at least
\* 60 seconds apart; the clock does not run backwards.
CooldownSpacing ==
    [][/\ now' >= now
       /\ _last_manual_run' >= _last_manual_run
       /\ last_admit' # last_admit =>
             /\ last_admit' = now /\ _last_manual_run' = now
             /\ last_admit # -1 => last_admit' - last_admit >= MANUAL_COOLDOWN_SECONDS
      ]_vars

\* C16 witness: a second manual trigger is admitted exactly 60 seconds after the
\* first (three ingestions of the access log: the boot pass and two manual passes;
\* the timer is a day away).
CooldownSpacingWitness ==
    /\ last_admit = BootClock + MANUAL_COOLDOWN_SECONDS
    /\ nginx_file.exists /\ nginx_commits = 3

\* C17: a source's records reach the store all together, by the one commit after
\* the whole file was read: a step of ingest_nginx_logs or ingest_ssh_logs adds
\* either none or all of the file's records, adds none when it raises, and a
\* failure while reading raises; no other step changes a table.
SingleCommitPerSource ==
    [][/\ AnyNginxStep =>
             /\ Len(nginx_logs') - Len(nginx_logs) \in {0, WellFormedCount(nginx_file)}
             /\ SubSeq(nginx_logs', 1, Len(nginx_logs)) = nginx_logs
             /\ ingest_nginx_logs.raised => nginx_logs' = nginx_logs
             /\ nginx_file.bad # 0 => (ingest_nginx_logs.raised /\ nginx_logs' = nginx_logs)
       /\ AnySshStep =>
             /\ Len(ssh_logs') - Len(ssh_logs) \in {0, Len(SshCollected[ssh_file])}
             /\ SubSeq(ssh_logs', 1, Len(ssh_logs)) = ssh_logs
             /\ ingest_ssh_logs.raised => ssh_logs' = ssh_logs
       /\ ~AnyNginxStep => nginx_logs' = nginx_logs
       /\ ~AnySshStep => ssh_logs' = ssh_logs
      ]_vars

\* C17 witness: the read of the access log failed at its second line, after a
\* record was collected from the first, with the store reachable: nothing is stored.
SingleCommitPerSourceWitness ==
    /\ nginx_file.bad = 2 /\ NginxCollected[nginx_file] # <<>>
    /\ bpc = "failed" /\ db_up /\ schema
    /\ nginx_logs = <<>>

\* C18: every call of ingest_nginx_logs and ingest_ssh_logs that found its file
\* leaves no store session open, whether it returns or raises.
SessionsAlwaysReleased ==
    [][/\ AnyNginxStep => ingest_nginx_logs.leaked = 0
       /\ AnySshStep => ingest_ssh_logs.leaked = 0
      ]_vars

\* the order of the startup hook: init_db, the two halves of the one boot pass,
\* create_task; a raising half ends the hook
BootOrder ==
    { <<"init_db", "ingest_nginx">>, <<"ingest_nginx", "ingest_ssh">>,
      <<"ingest_ssh", "create_task">>, <<"create_task", "done">>,
      <<"ingest_nginx", "failed">>, <<"ingest_ssh", "failed">> }

\* C19: the startup hook initialises the store, then runs one pass to its end, and
\* only then is the timer task created: the task does not exist before the hook is
\* done, its first sleep is set a full interval after a moment at which the boot
\* pass had ended, and a scheduled pass starts only once that sleep is over.  The
\* boot pass leaves the cooldown timestamp alone: the first manual trigger after
\* boot is not answered 429 (the clock at boot reading at least 60 seconds past the
\* epoch).
BootOrdering ==
    /\ [](/\ (bpc = "init_db") => (~schema /\ nginx_logs = <<>> /\ ssh_logs = <<>>)
          /\ (spc = "absent") <=> (bpc # "done")
          /\ (bpc # "done") =>
                /\ _last_manual_run = 0 /\ last_admit = -1
                /\ \A h \in Requests : mpc[h] = "idle"
          /\ (bpc = "done" /\ nginx_file.exists /\ spc = "created" /\ last_admit = -1) =>
                nginx_commits = 1)
    /\ [][/\ bpc' # bpc => << bpc, bpc' >> \in BootOrder
          /\ (spc = "created" /\ spc' # spc) =>
                (spc' = "sleep" /\ wake' = now + INGEST_INTERVAL_SECONDS)
          /\ (spc = "sleep" /\ spc' # spc) => now >= wake
          /\ \A h \in Requests : (Handled(h) /\ last_admit = -1) =>
                (resp'[h] # 429 /\ mpc'[h] = "ingest_nginx" /\ last_admit' = now)
         ]_vars

\* C19 witness: the first manual trigger was admitted at the clock reading of the
\* boot, and a full interval later the first scheduled pass executes.
BootOrderingWitness ==
    /\ bpc = "done" /\ last_admit = BootClock
    /\ InPass(spc) /\ now = BootClock + INGEST_INTERVAL_SECONDS
    /\ nginx_file.exists /\ nginx_commits = 2

\* C20: no coroutine is ever scheduled while the lock is held: no handler and no
\* scheduler iteration sees the lock held, nothing ever waits for the lock, 409 is
\* never answered; a trigger past the cooldown gate takes the lock in the same
\* step, and so does the scheduler when its timer has fired.
LockNeverObservedHeld ==
    /\ [](/\ waiters = <<>> /\ spc # "wait_lock"
          /\ \A h \in Requests : mpc[h] # "wait_lock" /\ resp[h] # 409
          /\ cur = NoTask => ~locked)
    /\ [][/\ \A h \in Requests : Handled(h) =>
                /\ ~locked /\ resp'[h] # 409
                /\ resp'[h] # 429 => (mpc'[h] = "ingest_nginx" /\ locked')
          /\ (TimerFired /\ spc' # spc) => (~locked /\ spc' = "ingest_nginx" /\ locked')
         ]_vars

\* C20 witness: a manual pass holds the lock and the loop while a request past its
\* cooldown is queued and the timer has fired: neither runs before the pass ends.
LockNeverObservedHeldWitness ==
    \E h \in Requests, g \in Requests :
        /\ locked /\ cur = ManualTask(h) /\ mpc[h] = "ingest_ssh"
        /\ mpc[g] = "queued" /\ during[g] = "manual"
        /\ now - _last_manual_run >= MANUAL_COOLDOWN_SECONDS
        /\ TimerFired

====
